---- MODULE Spec2Model ----
(***************************************************************************)
(* ModelX: the client hook use-modelx-data (two of its versions: the one   *)
(* that merges WebSocket snapshots and tracks first_run_complete, and the  *)
(* one that reconnects with exponential backoff) and the server's run      *)
(* cycle (reset, fan-out to the domain agents, fan-in through the          *)
(* domain_insights reducer, aggregation, broadcast).                       *)
(*                                                                         *)
(* JavaScript runs each handler to completion, so one handler is one       *)
(* action.  React commits a state update and runs the effects that depend  *)
(* on it before the next event is handled; the polling effect is therefore *)
(* part of the action that changes isConnected.  React drops a setState    *)
(* made after the component unmounted.  A JSON message is an object whose  *)
(* fields may be absent: a function whose DOMAIN is the set of fields      *)
(* present.  The JavaScript values true, false and undefined of            *)
(* first_run_complete are the strings "true", "false" and "undefined".     *)
(* The browser delivers a message event only while the socket is OPEN.     *)
(***************************************************************************)
EXTENDS Integers, Sequences, FiniteSets, TLC

VARIABLES
    hook,                 \* the version of use-modelx-data.ts that runs: "merge" | "backoff" | "none"
    state,                \* useState<ModelXState>: the ClientView
    isConnected,          \* useState(false)
    readyState,           \* of the current WebSocket: NONE, CONNECTING, OPEN, CLOSING, CLOSED
    wsRef,                \* wsRef.current holds a socket
    reconnectTimeout,     \* a reconnect timer is pending
    mounted,              \* the effect cleanup has not run
    initialFetchTimeout,  \* the INITIAL_FETCH_DELAY timer is pending
    initialFetch,         \* fetchInitialData's request: "idle" | "inflight" | "done"
    initialFetchDoneRef,  \* initialFetchDoneRef.current
    loadingTimeout,       \* the MAX_LOADING_TIME timer is pending
    pollInterval,         \* the fallback polling interval is set
    pollInFlight,         \* fetchData calls awaiting their responses
    pingsRecv,            \* pings received on the current socket
    pongsSent,            \* pongs sent on the current socket
    reconnectAttempts,    \* reconnectAttemptsRef.current
    delay,                \* delay of the last reconnect timer scheduled (ms), 0 if none
    socketsInRow,         \* history: sockets created since the last successful open
    wsLog,                \* history: the final_ranked_feed part of each snapshot message received
    phase,                \* server: the run cycle's state
    branch,               \* server: each domain agent's state in this cycle
    domain_insights,      \* server: the merged field of the parent graph
    run_count,            \* server: cycles broadcast so far
    broadcast,            \* server: the last Snapshot broadcast
    final_ranked_feed,    \* server: the Feed Aggregator's output of this cycle
    reducerLog,           \* history: a field's initial value, then the updates the reducer merged
    connections,          \* server: the Broadcaster's broadcast set
    missed,               \* server: each client's consecutive unacknowledged pings
    delivered,            \* history: the run_count of each Snapshot pushed to each client
    parseErrors           \* history: lines the handler's catch wrote to the console

clientVars == <<hook, state, isConnected, readyState, wsRef, reconnectTimeout, mounted,
                initialFetchTimeout, initialFetch, initialFetchDoneRef, loadingTimeout,
                pollInterval, pollInFlight, pingsRecv, pongsSent, reconnectAttempts,
                delay, socketsInRow, wsLog, parseErrors>>
broadcasterVars == <<connections, missed, delivered>>
serverVars == <<phase, branch, domain_insights, run_count, broadcast, final_ranked_feed,
                reducerLog, broadcasterVars>>
vars == <<clientVars, serverVars>>

(***************************************************************************)
(* Bounds of the model.                                                    *)
(***************************************************************************)
MaxEvents == 2      \* a feed is <<1, .., n>> with n <= MaxEvents
MaxRun == 1         \* run_count values carried by messages and responses
MaxPings == 1       \* pings delivered on one socket
MaxInFlight == 1    \* fallback requests in flight at once
MaxMsgs == 3        \* length of the logged message sequence
MaxBad == 1         \* messages that fail to parse

(***************************************************************************)
(* Values.                                                                 *)
(***************************************************************************)
Feeds == {[i \in 1..n |-> i] : n \in 0..MaxEvents}
Statuses == {"initializing", "operational", "error"}
EmptyObj == [k \in {} |-> 0]
Opt(k, S) == {EmptyObj} \cup {k :> v : v \in S}
Has(data, k) == k \in DOMAIN data
Min(a, b) == IF a < b THEN a ELSE b

\* JavaScript's a || b on "true" / "false" / "undefined"
Truthy(v) == v = "true"
JsOr(a, b) == IF Truthy(a) THEN a ELSE b
JsBool(b) == IF b THEN "true" ELSE "false"

PingMsg == "type" :> "ping"
IsPing(data) == Has(data, "type") /\ data.type = "ping"

\* the snapshot messages the server may push (every field optional)
WsData ==
    {f @@ d @@ r @@ s @@ c :
        f \in Opt("final_ranked_feed", Feeds),
        d \in Opt("risk_dashboard_snapshot", {"dashboard"}),
        r \in Opt("run_count", 0..MaxRun),
        s \in Opt("status", Statuses),
        c \in Opt("first_run_complete", {"true", "false"})}

\* /api/feeds and /api/feed answer {events?: [...]}; /api/dashboard an object or null
FeedResponses == Opt("events", Feeds)
DashboardResponses == {"null", "dashboard"}
\* /api/status answers {run_count?, status?}
StatusResponses ==
    {r @@ s : r \in Opt("run_count", 0..MaxRun), s \in Opt("status", Statuses)}

EventsNonEmpty(feed) == Has(feed, "events") /\ Len(feed.events) > 0

(***************************************************************************)
(* The merging version of the hook: pure parts of its handlers.            *)
(***************************************************************************)
\* mutant: any feed present replaces the held one (data.final_ranked_feed || prev..)
NewFeed_Replace(prev, data) ==
    IF Has(data, "final_ranked_feed")
    THEN data.final_ranked_feed
    ELSE prev.final_ranked_feed

\* const newFeed of websocket.onmessage
NewFeed(prev, data) ==
    IF Has(data, "final_ranked_feed") /\ Len(data.final_ranked_feed) > 0
    THEN data.final_ranked_feed
    ELSE prev.final_ranked_feed

\* the status taken from the message whenever it carries one
NewStatus_FromData(prev, data, newFeed) ==
    IF Has(data, "status")
    THEN data.status
    ELSE IF Len(newFeed) > 0 THEN "operational" ELSE prev.status

\* let newStatus of websocket.onmessage
NewStatus(prev, data, newFeed) ==
    IF Has(data, "status") /\ data.status = "error"
    THEN "error"
    ELSE IF (Has(data, "status") /\ data.status = "operational") \/ Len(newFeed) > 0
         THEN "operational"
         ELSE prev.status

\* mutant: the held flag is not an operand
NewFirstRunComplete_NoPrev(prev, data, newFeed) ==
    LET dataFrc == IF Has(data, "first_run_complete")
                   THEN data.first_run_complete ELSE "undefined"
    IN  JsOr(dataFrc, JsBool(Len(newFeed) > 0))

\* mutant: the merged feed is not an operand
NewFirstRunComplete_NoFeed(prev, data, newFeed) ==
    LET dataFrc == IF Has(data, "first_run_complete")
                   THEN data.first_run_complete ELSE "undefined"
    IN  JsOr(prev.first_run_complete, JsOr(dataFrc, "false"))

\* const newFirstRunComplete of websocket.onmessage
NewFirstRunComplete(prev, data, newFeed) ==
    LET dataFrc == IF Has(data, "first_run_complete")
                   THEN data.first_run_complete ELSE "undefined"
    IN  JsOr(JsOr(prev.first_run_complete, dataFrc), JsBool(Len(newFeed) > 0))

\* setState(prev => ...) of websocket.onmessage
MergeState(prev, data) ==
    LET newFeed == NewFeed(prev, data)
        newDashboard == IF Has(data, "risk_dashboard_snapshot")
                        THEN data.risk_dashboard_snapshot
                        ELSE prev.risk_dashboard_snapshot
    IN  [final_ranked_feed |-> newFeed,
         risk_dashboard_snapshot |-> newDashboard,
         run_count |-> IF Has(data, "run_count") THEN data.run_count ELSE prev.run_count,
         status |-> NewStatus(prev, data, newFeed),
         first_run_complete |-> NewFirstRunComplete(prev, data, newFeed)]

\* setState(prev => ...) of fetchInitialData, reached only with events present
InitialFetchUpdate(prev, feedData) ==
    [prev EXCEPT !.final_ranked_feed = feedData.events,
                 !.status = "operational",
                 !.first_run_complete = "true"]

\* mutant: the timeout forces nothing
LoadingTimeoutUpdate_Keep(prev) == prev

\* setState(prev => ...) of the loading timeout
LoadingTimeoutUpdate(prev) ==
    IF ~Truthy(prev.first_run_complete)
    THEN [prev EXCEPT !.status = "operational", !.first_run_complete = "true"]
    ELSE prev

\* setState(prev => ...) of fetchData
PollUpdate(prev, dashboard, feed) ==
    LET has == EventsNonEmpty(feed)
        \* feed.events && feed.events.length > 0
        hasJs == IF Has(feed, "events") THEN JsBool(Len(feed.events) > 0) ELSE "undefined"
    IN  [prev EXCEPT
            !.risk_dashboard_snapshot =
                IF dashboard # "null" THEN dashboard ELSE prev.risk_dashboard_snapshot,
            !.final_ranked_feed = IF has THEN feed.events ELSE prev.final_ranked_feed,
            !.status = IF has THEN "operational" ELSE prev.status,
            !.first_run_complete = JsOr(prev.first_run_complete, hasJs)]

\* const isLoading of Index
isLoading ==
    /\ state.status = "initializing"
    /\ ~Truthy(state.first_run_complete)
    /\ Len(state.final_ranked_feed) = 0

(***************************************************************************)
(* What both versions share.                                               *)
(***************************************************************************)
\* React applies a state update only while the component is mounted
SetState(new) == IF mounted THEN new ELSE state
SetIsConnected(b) == IF mounted THEN b ELSE isConnected

\* the polling effect, deps [isConnected, fetchData]: it runs again when
\* isConnected changes; connected, it clears the interval; disconnected, it
\* sets the interval and calls fetchData() at once
PollEffect(newIsConnected) ==
    IF newIsConnected = isConnected
    THEN UNCHANGED <<pollInterval, pollInFlight>>
    ELSE IF newIsConnected
         THEN pollInterval' = FALSE /\ UNCHANGED pollInFlight
         ELSE /\ pollInterval' = TRUE
              /\ pollInFlight' = Min(pollInFlight + 1, MaxInFlight)

mergeOnly == <<initialFetchTimeout, initialFetch, initialFetchDoneRef, loadingTimeout>>
backoffOnly == <<reconnectAttempts, delay, socketsInRow>>
socketVars == <<readyState, wsRef, reconnectTimeout>>
pollVars == <<pollInterval, pollInFlight>>
pingVars == <<pingsRecv, pongsSent>>

\* No client is connected to the Broadcaster
InitBroadcasterIdle ==
    /\ connections = {}
    /\ missed = <<>>
    /\ delivered = <<>>

\* the client alone: the server's cycle is not running
InitServerIdle ==
    /\ phase = "Idle"
    /\ branch = <<>>
    /\ domain_insights = [kind |-> "list", val |-> <<>>]
    /\ run_count = 0
    /\ broadcast = <<>>
    /\ final_ranked_feed = <<>>
    /\ reducerLog = <<>>
    /\ InitBroadcasterIdle

(***************************************************************************)
(* The merging version: state after the first render and its effects.      *)
(***************************************************************************)
InitMerge ==
    /\ hook = "merge"
    /\ state = [final_ranked_feed |-> <<>>,
                risk_dashboard_snapshot |-> "DEFAULT_DASHBOARD",
                run_count |-> 0,
                status |-> "initializing",
                first_run_complete |-> "false"]
    /\ isConnected = FALSE
    /\ mounted = TRUE
    \* connect(): new WebSocket(WS_URL) returns a socket or throws
    /\ \E ok \in BOOLEAN :
          /\ readyState = IF ok THEN "CONNECTING" ELSE "NONE"
          /\ wsRef = ok
          /\ reconnectTimeout = ~ok
    /\ initialFetchTimeout = TRUE
    /\ initialFetch = "idle"
    /\ initialFetchDoneRef = FALSE
    /\ loadingTimeout = TRUE
    \* the polling effect ran with isConnected = false
    /\ pollInterval = TRUE
    /\ pollInFlight = 1
    /\ pingsRecv = 0
    /\ pongsSent = 0
    /\ reconnectAttempts = 0
    /\ delay = 0
    /\ socketsInRow = 0
    /\ wsLog = <<>>
    /\ parseErrors = 0
    /\ InitServerIdle

\* websocket.onopen
M_OnOpen ==
    /\ hook = "merge"
    /\ readyState = "CONNECTING"
    /\ readyState' = "OPEN"
    /\ isConnected' = SetIsConnected(TRUE)
    /\ PollEffect(isConnected')
    /\ UNCHANGED <<hook, state, wsRef, reconnectTimeout, mounted, mergeOnly, pingVars,
                   backoffOnly, wsLog, parseErrors, serverVars>>

\* if (websocket.readyState === WebSocket.OPEN) websocket.send(pong): pongs sent after it
M_SendPong == IF readyState = "OPEN" THEN pongsSent + 1 ELSE pongsSent

\* websocket.onmessage whose ping branch lacks the return and falls into the merge
M_Message_NoReturn(data) ==
    /\ hook = "merge"
    /\ readyState = "OPEN"
    /\ IF IsPing(data)
       THEN /\ pingsRecv' = pingsRecv + 1
            /\ pongsSent' = M_SendPong
            /\ state' = SetState(MergeState(state, data))
            /\ UNCHANGED initialFetchDoneRef
       ELSE /\ state' = SetState(MergeState(state, data))
            /\ initialFetchDoneRef' =
                  IF Has(data, "final_ranked_feed") /\ Len(data.final_ranked_feed) > 0
                  THEN TRUE ELSE initialFetchDoneRef
            /\ UNCHANGED pingVars
    /\ UNCHANGED <<hook, isConnected, socketVars, mounted, initialFetchTimeout,
                   initialFetch, loadingTimeout, pollVars, backoffOnly, serverVars>>

\* websocket.onmessage, without the history of the messages
M_Message(data) ==
    /\ hook = "merge"
    /\ readyState = "OPEN"
    /\ IF IsPing(data)
       THEN /\ pingsRecv' = pingsRecv + 1
            /\ pongsSent' = M_SendPong
            /\ UNCHANGED <<state, initialFetchDoneRef>>
       ELSE /\ state' = SetState(MergeState(state, data))
            /\ initialFetchDoneRef' =
                  IF Has(data, "final_ranked_feed") /\ Len(data.final_ranked_feed) > 0
                  THEN TRUE ELSE initialFetchDoneRef
            /\ UNCHANGED pingVars
    /\ UNCHANGED <<hook, isConnected, socketVars, mounted, initialFetchTimeout,
                   initialFetch, loadingTimeout, pollVars, backoffOnly, serverVars>>

\* the messages the server may send now
Incoming == WsData \cup (IF pingsRecv < MaxPings THEN {PingMsg} ELSE {})

M_OnMessage ==
    \E data \in Incoming : M_Message(data) /\ UNCHANGED <<wsLog, parseErrors>>

\* websocket.onerror (the close event follows)
M_OnError ==
    /\ hook = "merge"
    /\ readyState \in {"CONNECTING", "OPEN"}
    /\ readyState' = "CLOSING"
    /\ isConnected' = SetIsConnected(FALSE)
    /\ PollEffect(isConnected')
    /\ UNCHANGED <<hook, state, wsRef, reconnectTimeout, mounted, mergeOnly, pingVars,
                   backoffOnly, wsLog, parseErrors, serverVars>>

\* websocket.onclose
M_OnClose ==
    /\ hook = "merge"
    /\ readyState \in {"CONNECTING", "OPEN", "CLOSING"}
    /\ readyState' = "CLOSED"
    /\ isConnected' = SetIsConnected(FALSE)
    /\ PollEffect(isConnected')
    /\ reconnectTimeout' = TRUE
    /\ UNCHANGED <<hook, state, wsRef, mounted, mergeOnly, pingVars, backoffOnly, wsLog, parseErrors,
                   serverVars>>

\* the reconnect timer fires: connect()
M_Reconnect ==
    /\ hook = "merge"
    /\ reconnectTimeout
    /\ \E ok \in BOOLEAN :
          IF ok
          THEN /\ readyState' = "CONNECTING"
               /\ wsRef' = TRUE
               /\ reconnectTimeout' = FALSE
               /\ pingsRecv' = 0
               /\ pongsSent' = 0
          ELSE \* new WebSocket threw: the catch schedules the next attempt
               /\ reconnectTimeout' = TRUE
               /\ UNCHANGED <<readyState, wsRef, pingVars>>
    /\ UNCHANGED <<hook, state, isConnected, mounted, mergeOnly, pollVars, backoffOnly,
                   wsLog, parseErrors, serverVars>>

\* the INITIAL_FETCH_DELAY timer fires: fetchInitialData() up to its await
M_InitialFetchStart ==
    /\ hook = "merge"
    /\ initialFetchTimeout
    /\ initialFetchTimeout' = FALSE
    /\ initialFetch' = IF initialFetchDoneRef THEN "done" ELSE "inflight"
    /\ UNCHANGED <<hook, state, isConnected, socketVars, mounted, initialFetchDoneRef,
                   loadingTimeout, pollVars, pingVars, backoffOnly, wsLog, parseErrors, serverVars>>

\* fetchInitialData() after its awaits: ok = FALSE is a failed fetch
M_InitialFetchDone ==
    /\ hook = "merge"
    /\ initialFetch = "inflight"
    /\ initialFetch' = "done"
    /\ \E ok \in BOOLEAN :
          IF ok
          THEN \E feedData \in FeedResponses :
                  IF EventsNonEmpty(feedData)
                  THEN /\ initialFetchDoneRef' = TRUE
                       /\ state' = SetState(InitialFetchUpdate(state, feedData))
                  ELSE UNCHANGED <<initialFetchDoneRef, state>>
          ELSE UNCHANGED <<initialFetchDoneRef, state>>
    /\ UNCHANGED <<hook, isConnected, socketVars, mounted, initialFetchTimeout,
                   loadingTimeout, pollVars, pingVars, backoffOnly, wsLog, parseErrors, serverVars>>

\* the MAX_LOADING_TIME timer fires
M_LoadingTimeout ==
    /\ hook = "merge"
    /\ loadingTimeout
    /\ loadingTimeout' = FALSE
    /\ state' = SetState(LoadingTimeoutUpdate(state))
    /\ UNCHANGED <<hook, isConnected, socketVars, mounted, initialFetchTimeout,
                   initialFetch, initialFetchDoneRef, pollVars, pingVars, backoffOnly,
                   wsLog, parseErrors, serverVars>>

\* the polling interval ticks: fetchData() up to its await
M_PollTick ==
    /\ hook = "merge"
    /\ pollInterval
    /\ ~isConnected
    /\ pollInFlight < MaxInFlight
    /\ pollInFlight' = pollInFlight + 1
    /\ UNCHANGED <<hook, state, isConnected, socketVars, mounted, mergeOnly, pollInterval,
                   pingVars, backoffOnly, wsLog, parseErrors, serverVars>>

\* fetchData() after its awaits: ok = FALSE is a failed fetch
M_PollDone ==
    /\ hook = "merge"
    /\ pollInFlight > 0
    /\ pollInFlight' = pollInFlight - 1
    /\ \E ok \in BOOLEAN :
          IF ok
          THEN \E dashboard \in DashboardResponses, feed \in FeedResponses :
                  state' = SetState(PollUpdate(state, dashboard, feed))
          ELSE UNCHANGED state
    /\ UNCHANGED <<hook, isConnected, socketVars, mounted, mergeOnly, pollInterval,
                   pingVars, backoffOnly, wsLog, parseErrors, serverVars>>

\* the cleanup of the effects
M_Unmount ==
    /\ hook = "merge"
    /\ mounted
    /\ mounted' = FALSE
    /\ reconnectTimeout' = FALSE
    /\ initialFetchTimeout' = FALSE
    /\ loadingTimeout' = FALSE
    \* websocket.close()
    /\ readyState' = IF readyState \in {"CONNECTING", "OPEN"} THEN "CLOSING" ELSE readyState
    /\ pollInterval' = FALSE
    /\ UNCHANGED <<hook, state, isConnected, wsRef, initialFetch, initialFetchDoneRef,
                   pollInFlight, pingVars, backoffOnly, wsLog, parseErrors, serverVars>>

MergeNext ==
    \/ M_OnOpen
    \/ M_OnMessage
    \/ M_OnError
    \/ M_OnClose
    \/ M_Reconnect
    \/ M_InitialFetchStart
    \/ M_InitialFetchDone
    \/ M_LoadingTimeout
    \/ M_PollTick
    \/ M_PollDone
    \/ M_Unmount

SpecMerge == InitMerge /\ [][MergeNext]_vars

(***************************************************************************)
(* The sequence of snapshot messages on one open socket, with its history. *)
(***************************************************************************)
M_LoggedMessage ==
    \E data \in WsData :
        /\ Len(wsLog) < MaxMsgs
        /\ M_Message(data)
        /\ wsLog' = Append(wsLog, [k \in DOMAIN data \cap {"final_ranked_feed"} |-> data[k]])
        /\ UNCHANGED parseErrors

WsSeqNext ==
    \/ M_OnOpen
    \/ M_LoggedMessage

SpecWsSeq == InitMerge /\ [][WsSeqNext]_vars

\* the loading timer fires MAX_LOADING_TIME after the mount unless the cleanup clears it
SpecMergeFair == SpecMerge /\ WF_vars(M_LoadingTimeout)

(***************************************************************************)
(* The exponential-backoff version of the hook.                            *)
(***************************************************************************)
maxReconnectAttempts == 10
MaxDelay == 30000
BaseDelay == 1000

\* mutant: no cap
Delay_NoCap(attempts) == BaseDelay * 2^attempts

\* Math.min(1000 * Math.pow(2, reconnectAttemptsRef.current), 30000)
Delay(attempts) == Min(BaseDelay * 2^attempts, MaxDelay)

\* connect() without the guard
MaxAttemptsReached_Never == FALSE

\* mutant: > for >=
MaxAttemptsReached_Off == reconnectAttempts > maxReconnectAttempts

\* reconnectAttemptsRef.current >= maxReconnectAttempts, the guard of connect()
MaxAttemptsReached == reconnectAttempts >= maxReconnectAttempts

\* this version's ModelXState has no first_run_complete
B_WsData == {data \in WsData : ~Has(data, "first_run_complete")}

\* setState(prevState => ({...prevState, ...data, final_ranked_feed: .. || .., ..}))
\* (an array, even an empty one, is truthy)
BackoffMerge(prev, data) ==
    [final_ranked_feed |->
        IF Has(data, "final_ranked_feed")
        THEN data.final_ranked_feed ELSE prev.final_ranked_feed,
     risk_dashboard_snapshot |->
        IF Has(data, "risk_dashboard_snapshot")
        THEN data.risk_dashboard_snapshot ELSE prev.risk_dashboard_snapshot,
     run_count |-> IF Has(data, "run_count") THEN data.run_count ELSE prev.run_count,
     status |-> IF Has(data, "status") THEN data.status ELSE prev.status,
     first_run_complete |->
        IF Has(data, "first_run_complete")
        THEN data.first_run_complete ELSE prev.first_run_complete]

\* setState(prev => ...) of fetchData (0 is falsy)
BackoffPollUpdate(prev, dashboard, feed, status) ==
    [prev EXCEPT
        !.risk_dashboard_snapshot = dashboard,
        !.final_ranked_feed = IF Has(feed, "events") THEN feed.events ELSE <<>>,
        !.run_count = IF Has(status, "run_count") /\ status.run_count # 0
                      THEN status.run_count ELSE prev.run_count,
        !.status = IF Has(status, "status") THEN status.status ELSE prev.status]

\* setState(prev => ({...prev, status: 'error', error: ..})) of connect() and of fetchData
SetError(prev) == [prev EXCEPT !.status = "error"]

InitBackoff ==
    /\ hook = "backoff"
    /\ state = [final_ranked_feed |-> <<>>,
                risk_dashboard_snapshot |-> "DEFAULT_DASHBOARD",
                run_count |-> 0,
                status |-> "initializing",
                first_run_complete |-> "undefined"]
    /\ isConnected = FALSE
    /\ mounted = TRUE
    \* connect(): new WebSocket(WS_URL) returns a socket or throws
    /\ \E ok \in BOOLEAN :
          /\ readyState = IF ok THEN "CONNECTING" ELSE "NONE"
          /\ wsRef = ok
          /\ reconnectTimeout = ~ok
          /\ reconnectAttempts = IF ok THEN 0 ELSE 1
          /\ delay = IF ok THEN 0 ELSE Delay(1)
          /\ socketsInRow = IF ok THEN 1 ELSE 0
    /\ initialFetchTimeout = FALSE
    /\ initialFetch = "idle"
    /\ initialFetchDoneRef = FALSE
    /\ loadingTimeout = FALSE
    /\ pollInterval = TRUE
    /\ pollInFlight = 1
    /\ pingsRecv = 0
    /\ pongsSent = 0
    /\ wsLog = <<>>
    /\ parseErrors = 0
    /\ InitServerIdle

\* ws.onopen
B_OnOpen ==
    /\ hook = "backoff"
    /\ readyState = "CONNECTING"
    /\ readyState' = "OPEN"
    /\ isConnected' = SetIsConnected(TRUE)
    /\ PollEffect(isConnected')
    /\ reconnectAttempts' = 0
    /\ socketsInRow' = 0
    /\ UNCHANGED <<hook, state, wsRef, reconnectTimeout, mounted, mergeOnly, pingVars,
                   delay, wsLog, parseErrors, serverVars>>

\* mutant: the ping is swallowed, no pong goes out
B_SendPong_None == pongsSent

\* try { ws.send(pong) } catch: send throws only while CONNECTING; pongs sent after it
B_SendPong == IF readyState = "CONNECTING" THEN pongsSent ELSE pongsSent + 1

\* ws.onmessage
B_Message(data) ==
    /\ hook = "backoff"
    /\ readyState = "OPEN"
    /\ IF IsPing(data)
       THEN /\ pingsRecv' = pingsRecv + 1
            /\ pongsSent' = B_SendPong
            /\ UNCHANGED state
       ELSE /\ state' = SetState(BackoffMerge(state, data))
            /\ UNCHANGED pingVars
    /\ UNCHANGED <<hook, isConnected, socketVars, mounted, mergeOnly, pollVars,
                   backoffOnly, wsLog, parseErrors, serverVars>>

B_Incoming == B_WsData \cup (IF pingsRecv < MaxPings THEN {PingMsg} ELSE {})

B_OnMessage == \E data \in B_Incoming : B_Message(data)

\* ws.onerror (the close event follows)
B_OnError ==
    /\ hook = "backoff"
    /\ readyState \in {"CONNECTING", "OPEN"}
    /\ readyState' = "CLOSING"
    /\ isConnected' = SetIsConnected(FALSE)
    /\ PollEffect(isConnected')
    /\ UNCHANGED <<hook, state, wsRef, reconnectTimeout, mounted, mergeOnly, pingVars,
                   backoffOnly, wsLog, parseErrors, serverVars>>

\* ws.onclose
B_OnClose ==
    /\ hook = "backoff"
    /\ readyState \in {"CONNECTING", "OPEN", "CLOSING"}
    /\ readyState' = "CLOSED"
    /\ isConnected' = SetIsConnected(FALSE)
    /\ PollEffect(isConnected')
    /\ wsRef' = FALSE
    /\ reconnectAttempts' = reconnectAttempts + 1
    /\ delay' = Delay(reconnectAttempts')
    /\ reconnectTimeout' = TRUE
    /\ UNCHANGED <<hook, state, mounted, mergeOnly, pingVars, socketsInRow, wsLog, parseErrors,
                   serverVars>>

\* the reconnect timer fires: connect()
B_Reconnect ==
    /\ hook = "backoff"
    /\ reconnectTimeout
    /\ IF MaxAttemptsReached
       THEN /\ state' = SetState(SetError(state))
            /\ reconnectTimeout' = FALSE
            /\ UNCHANGED <<isConnected, readyState, wsRef, pingVars, backoffOnly, pollVars>>
       ELSE \E ok \in BOOLEAN :
            IF ok
            THEN /\ readyState' = "CONNECTING"
                 /\ wsRef' = TRUE
                 /\ reconnectTimeout' = FALSE
                 /\ socketsInRow' = socketsInRow + 1
                 /\ pingsRecv' = 0
                 /\ pongsSent' = 0
                 /\ UNCHANGED <<state, isConnected, reconnectAttempts, delay, pollVars>>
            ELSE \* new WebSocket threw: the catch counts a failure and schedules again
                 /\ isConnected' = SetIsConnected(FALSE)
                 /\ PollEffect(isConnected')
                 /\ reconnectAttempts' = reconnectAttempts + 1
                 /\ delay' = Delay(reconnectAttempts')
                 /\ reconnectTimeout' = TRUE
                 /\ UNCHANGED <<state, readyState, wsRef, pingVars, socketsInRow>>
    /\ UNCHANGED <<hook, mounted, mergeOnly, wsLog, parseErrors, serverVars>>

\* the polling interval ticks: fetchData() up to its await
B_PollTick ==
    /\ hook = "backoff"
    /\ pollInterval
    /\ ~isConnected
    /\ pollInFlight < MaxInFlight
    /\ pollInFlight' = pollInFlight + 1
    /\ UNCHANGED <<hook, state, isConnected, socketVars, mounted, mergeOnly, pollInterval,
                   pingVars, backoffOnly, wsLog, parseErrors, serverVars>>

\* fetchData() after its awaits: ok = FALSE is a failed fetch; /api/dashboard
\* answers an object
B_PollDone ==
    /\ hook = "backoff"
    /\ pollInFlight > 0
    /\ pollInFlight' = pollInFlight - 1
    /\ \E ok \in BOOLEAN :
          IF ok
          THEN \E feed \in FeedResponses, status \in StatusResponses :
                  state' = SetState(BackoffPollUpdate(state, "dashboard", feed, status))
          ELSE state' = SetState(SetError(state))
    /\ UNCHANGED <<hook, isConnected, socketVars, mounted, mergeOnly, pollInterval,
                   pingVars, backoffOnly, wsLog, parseErrors, serverVars>>

\* the cleanup of the effects
B_Unmount ==
    /\ hook = "backoff"
    /\ mounted
    /\ mounted' = FALSE
    /\ reconnectTimeout' = FALSE
    \* if (wsRef.current) wsRef.current.close()
    /\ readyState' = IF wsRef /\ readyState \in {"CONNECTING", "OPEN"}
                     THEN "CLOSING" ELSE readyState
    /\ pollInterval' = FALSE
    /\ UNCHANGED <<hook, state, isConnected, wsRef, mergeOnly, pollInFlight, pingVars,
                   backoffOnly, wsLog, parseErrors, serverVars>>

BackoffNext ==
    \/ B_OnOpen
    \/ B_OnMessage
    \/ B_OnError
    \/ B_OnClose
    \/ B_Reconnect
    \/ B_PollTick
    \/ B_PollDone
    \/ B_Unmount

SpecBackoff == InitBackoff /\ [][BackoffNext]_vars

\* either version of the hook
SpecHooks == (InitMerge \/ InitBackoff) /\ [][MergeNext \/ BackoffNext]_vars

(***************************************************************************)
(* Messages whose text is not JSON: JSON.parse throws inside the handler's *)
(* try and the catch writes one line to the console.                       *)
(***************************************************************************)
\* a catch that gives the connection up
M_OnBadMessage_Close ==
    /\ hook = "merge"
    /\ readyState = "OPEN"
    /\ parseErrors < MaxBad
    /\ parseErrors' = parseErrors + 1
    /\ readyState' = "CLOSING"
    /\ isConnected' = SetIsConnected(FALSE)
    /\ PollEffect(isConnected')
    /\ UNCHANGED <<hook, state, wsRef, reconnectTimeout, mounted, mergeOnly, pingVars,
                   backoffOnly, wsLog, serverVars>>

\* websocket.onmessage of the merging version, event.data is not JSON
M_OnBadMessage ==
    /\ hook = "merge"
    /\ readyState = "OPEN"
    /\ parseErrors < MaxBad
    /\ parseErrors' = parseErrors + 1
    /\ UNCHANGED <<hook, state, isConnected, socketVars, mounted, mergeOnly, pollVars,
                   pingVars, backoffOnly, wsLog, serverVars>>

\* ws.onmessage of the backoff version, event.data is not JSON
B_OnBadMessage ==
    /\ hook = "backoff"
    /\ readyState = "OPEN"
    /\ parseErrors < MaxBad
    /\ parseErrors' = parseErrors + 1
    /\ UNCHANGED <<hook, state, isConnected, socketVars, mounted, mergeOnly, pollVars,
                   pingVars, backoffOnly, wsLog, serverVars>>

\* the socket's events and the cleanup, in both versions
ParseNext ==
    \/ M_OnOpen
    \/ M_OnMessage
    \/ M_OnBadMessage
    \/ M_OnError
    \/ M_OnClose
    \/ M_Reconnect
    \/ M_Unmount
    \/ B_OnOpen
    \/ B_OnMessage
    \/ B_OnBadMessage
    \/ B_OnError
    \/ B_OnClose
    \/ B_Reconnect
    \/ B_Unmount

SpecParse == (InitMerge \/ InitBackoff) /\ [][ParseNext]_vars

(***************************************************************************)
(* The Feed Aggregator (Rank & Dedupe): aggregate(insights) deduplicates   *)
(* the payloads of the insights and ranks what is left.  A summary is a    *)
(* sequence of words, a word a pair <<letters, capitalised>>; confidence   *)
(* is in tenths.                                                           *)
(***************************************************************************)
MaxInsights == 3    \* insights handed to the aggregator alone
WindowLen == 2      \* timestamps t with the same t \div WindowLen share a time window

Severities == {"low", "medium", "high", "critical"}

W(letters, cap) == <<letters, cap>>
Flood == <<W("flood", TRUE), W("in", FALSE), W("colombo", TRUE)>>
FloodLower == <<W("flood", FALSE), W("in", FALSE), W("colombo", FALSE)>>
CseUp == <<W("cse", TRUE), W("index", FALSE), W("up", FALSE)>>
CseRises == <<W("cse", TRUE), W("index", FALSE), W("rises", FALSE)>>
Gazette == <<W("gazette", TRUE)>>
Strike == <<W("strike", TRUE)>>

Item(id, domain, severity, summary, confidence, timestamp) ==
    [id |-> id, domain |-> domain, severity |-> severity, impact_type |-> "risk",
     summary |-> summary, confidence |-> confidence, timestamp |-> timestamp]

\* the payloads the insights carry
Universe ==
    { Item(1, "social", "critical", Flood, 9, 2),
      Item(2, "social", "low", FloodLower, 5, 1),
      Item(3, "meteorological", "high", Flood, 9, 1),
      Item(4, "economical", "high", CseUp, 9, 1),
      Item(5, "economical", "high", CseRises, 7, 1),
      Item(6, "economical", "medium", CseRises, 7, 3),
      Item(7, "political", "low", Gazette, 5, 2),
      Item(8, "political", "medium", Strike, 5, 2) }

U(id) == CHOOSE x \in Universe : x.id = id

\* the payloads of the run cycle's domain agents
Payloads == {U(1), U(2)}

\* sequences over S of length at most n
SeqsUpTo(S, n) == UNION {[1..k -> S] : k \in 0..n}

\* normalized text: case folded
Normalize(summary) == [i \in DOMAIN summary |-> W(summary[i][1], FALSE)]

Words(text) == {text[i] : i \in DOMAIN text}

\* high text overlap: at least half of the words of the two texts are common
HighOverlap(a, b) ==
    2 * Cardinality(Words(a) \cap Words(b)) >= Cardinality(Words(a) \cup Words(b))

SameWindow(a, b) == (a.timestamp \div WindowLen) = (b.timestamp \div WindowLen)

\* near-duplicates: same normalized text, or same domain and time window with
\* high text overlap
NearDup(a, b) ==
    \/ Normalize(a.summary) = Normalize(b.summary)
    \/ /\ a.domain = b.domain
       /\ SameWindow(a, b)
       /\ HighOverlap(Normalize(a.summary), Normalize(b.summary))

\* the group of near-duplicates of the members of S among the payloads all
RECURSIVE Closure(_, _)
Closure(S, all) ==
    LET n == S \cup {y \in all : \E x \in S : NearDup(x, y)}
    IN  IF n = S THEN S ELSE Closure(n, all)

GroupOf(x, all) == Closure({x}, all)

\* a replaces b as its group's representative on lower confidence
Better_Lowest(a, b) ==
    \/ a.confidence < b.confidence
    \/ a.confidence = b.confidence /\ a.timestamp > b.timestamp
    \/ a.confidence = b.confidence /\ a.timestamp = b.timestamp /\ a.id < b.id

\* a replaces b as its group's representative on confidence alone
Better_ConfidenceOnly(a, b) == a.confidence > b.confidence

\* a replaces b as its group's representative: higher confidence, then the more
\* recent, then the smaller identifier
Better(a, b) ==
    \/ a.confidence > b.confidence
    \/ a.confidence = b.confidence /\ a.timestamp > b.timestamp
    \/ a.confidence = b.confidence /\ a.timestamp = b.timestamp /\ a.id < b.id

\* the representative of group G: the payloads are visited in arrival order
RECURSIVE Representative(_, _, _, _)
Representative(G, payloads, i, cur) ==
    IF i > Len(payloads)
    THEN cur
    ELSE IF payloads[i] \in G /\ Better(payloads[i], cur)
         THEN Representative(G, payloads, i + 1, payloads[i])
         ELSE Representative(G, payloads, i + 1, cur)

\* one representative per group, in the order the groups first arrive
RECURSIVE Dedupe(_, _, _)
Dedupe(payloads, i, kept) ==
    IF i > Len(payloads)
    THEN kept
    ELSE LET all == {payloads[j] : j \in DOMAIN payloads}
             G == GroupOf(payloads[i], all)
         IN  IF \E k \in DOMAIN kept : kept[k] \in G
             THEN Dedupe(payloads, i + 1, kept)
             ELSE Dedupe(payloads, i + 1,
                         Append(kept, Representative(G, payloads, i + 1, payloads[i])))

\* severities compared as strings
SeverityRank_Alphabetical(s) ==
    CASE s = "medium" -> 4
      [] s = "low" -> 3
      [] s = "high" -> 2
      [] OTHER -> 1

\* critical > high > medium > low
SeverityRank(s) ==
    CASE s = "critical" -> 4
      [] s = "high" -> 3
      [] s = "medium" -> 2
      [] OTHER -> 1

\* a is ranked before b: severity, then confidence descending, then recency
\* descending, then the smaller identifier
RanksBefore(a, b) ==
    \/ SeverityRank(a.severity) > SeverityRank(b.severity)
    \/ /\ SeverityRank(a.severity) = SeverityRank(b.severity)
       /\ \/ a.confidence > b.confidence
          \/ a.confidence = b.confidence /\ a.timestamp > b.timestamp
          \/ a.confidence = b.confidence /\ a.timestamp = b.timestamp /\ a.id < b.id

\* e goes before the first Event it is ranked before
Insert(e, ranked) ==
    LET before == {k \in DOMAIN ranked : RanksBefore(e, ranked[k])}
        pos == IF before = {} THEN Len(ranked) + 1
               ELSE CHOOSE k \in before : \A j \in before : k <= j
    IN  SubSeq(ranked, 1, pos - 1) \o <<e>> \o SubSeq(ranked, pos, Len(ranked))

RECURSIVE Rank(_, _, _)
Rank(events, i, ranked) ==
    IF i > Len(events)
    THEN ranked
    ELSE Rank(events, i + 1, Insert(events[i], ranked))

IsCompleted(insight) == insight.status = "completed"

\* aggregate(insights) -> ordered list of Event
aggregate(insights) ==
    LET completed == SelectSeq(insights, IsCompleted)
        payloads == [i \in DOMAIN completed |-> completed[i].agent_output]
    IN  Rank(Dedupe(payloads, 1, <<>>), 1, <<>>)

\* the Snapshot's status: error only if every branch failed
SnapshotStatus(br) ==
    IF \A b \in DOMAIN br : br[b].st = "raised" THEN "error" ELSE "operational"

(***************************************************************************)
(* The server's run cycle: Graph Initiator (Reset), fan-out to the domain  *)
(* agents, fan-in through the domain_insights reducer, Feed Aggregator,    *)
(* broadcast, Router (Loop / End).                                         *)
(*                                                                         *)
(* A Python value that may or may not be a list is a record [kind, val]:   *)
(* kind "list" with a sequence, kind "str" with a string, kind "none".     *)
(***************************************************************************)
NumBranches == 3    \* domain agents of the combined graph
MaxCycles == 2      \* cycles run
MaxUpdates == 3     \* updates applied to one field by the reducer alone
Branches == 1..NumBranches

\* an update of domain_insights: the string "RESET" or a list of insights
Str(s) == [kind |-> "str", val |-> s]
None == [kind |-> "none", val |-> "None"]
Reset == Str("RESET")
List(insights) == [kind |-> "list", val |-> insights]

\* return current (RESET is not recognised)
reduce_domain_insights_NoReset(existing, new) ==
    LET current == IF existing.kind = "list" THEN existing.val ELSE <<>>
    IN  IF new.kind = "list" THEN current \o new.val ELSE current

\* return new (the update replaces the field)
reduce_domain_insights_Overwrite(existing, new) ==
    IF new.kind = "str" /\ new.val = "RESET"
    THEN <<>>
    ELSE IF new.kind = "list" THEN new.val
         ELSE IF existing.kind = "list" THEN existing.val ELSE <<>>

\* return current or new (a non-empty field keeps its value)
reduce_domain_insights_FirstWins(existing, new) ==
    IF new.kind = "str" /\ new.val = "RESET"
    THEN <<>>
    ELSE LET current == IF existing.kind = "list" THEN existing.val ELSE <<>>
         IN  IF new.kind = "list" /\ Len(current) = 0 THEN new.val ELSE current

\* def reduce_domain_insights(existing, new)
reduce_domain_insights(existing, new) ==
    IF new.kind = "str" /\ new.val = "RESET"
    THEN <<>>
    ELSE LET current == IF existing.kind = "list" THEN existing.val ELSE <<>>
         IN  IF new.kind = "list" THEN current \o new.val ELSE current

\* an insight of a domain agent: the dict the parent graph receives
Insight(b, t, p) ==
    [source |-> b, timestamp |-> t, agent_output |-> p, status |-> "completed"]

IdleBranch == [st |-> "idle", out |-> <<>>]

\* no hook is mounted: the client's variables keep these values
InitClientIdle ==
    /\ hook = "none"
    /\ state = [final_ranked_feed |-> <<>>,
                risk_dashboard_snapshot |-> "DEFAULT_DASHBOARD",
                run_count |-> 0,
                status |-> "initializing",
                first_run_complete |-> "false"]
    /\ isConnected = FALSE
    /\ readyState = "NONE"
    /\ wsRef = FALSE
    /\ reconnectTimeout = FALSE
    /\ mounted = FALSE
    /\ initialFetchTimeout = FALSE
    /\ initialFetch = "idle"
    /\ initialFetchDoneRef = FALSE
    /\ loadingTimeout = FALSE
    /\ pollInterval = FALSE
    /\ pollInFlight = 0
    /\ pingsRecv = 0
    /\ pongsSent = 0
    /\ reconnectAttempts = 0
    /\ delay = 0
    /\ socketsInRow = 0
    /\ wsLog = <<>>
    /\ parseErrors = 0

InitCycle ==
    /\ phase = "Idle"
    /\ branch = [b \in Branches |-> IdleBranch]
    /\ domain_insights = List(<<>>)
    /\ run_count = 0
    /\ broadcast = <<>>
    /\ final_ranked_feed = <<>>
    /\ reducerLog = <<>>
    /\ InitBroadcasterIdle
    /\ InitClientIdle

\* Graph Initiator (Reset) that leaves the merged field as it is
S_Reset_NoReset ==
    /\ phase \in {"Idle", "LoopDelay"}
    /\ run_count < MaxCycles
    /\ phase' = "Resetting"
    /\ branch' = [b \in Branches |-> IdleBranch]
    /\ UNCHANGED <<domain_insights, run_count, broadcast, final_ranked_feed, reducerLog,
                   broadcasterVars, clientVars>>

\* Graph Initiator (Reset): the cycle starts by resetting the merged field
S_Reset ==
    /\ phase \in {"Idle", "LoopDelay"}
    /\ run_count < MaxCycles
    /\ phase' = "Resetting"
    /\ domain_insights' = List(reduce_domain_insights(domain_insights, Reset))
    /\ branch' = [b \in Branches |-> IdleBranch]
    /\ UNCHANGED <<run_count, broadcast, final_ranked_feed, reducerLog, broadcasterVars, clientVars>>

\* Fan-Out: every domain agent starts
S_FanOut ==
    /\ phase = "Resetting"
    /\ phase' = "AwaitingBranches"
    /\ branch' = [b \in Branches |-> [st |-> "running", out |-> <<>>]]
    /\ UNCHANGED <<domain_insights, run_count, broadcast, final_ranked_feed, reducerLog,
                   broadcasterVars, clientVars>>

\* workflow.add_node(name, subgraph.build_graph()): the sub-graph returns its
\* domain_insights to the parent graph
S_BranchCompletes(b) ==
    /\ phase = "AwaitingBranches"
    /\ branch[b].st = "running"
    /\ \E p \in Payloads :
          branch' = [branch EXCEPT ![b] =
              [st |-> "completed", out |-> <<Insight(b, run_count + 1, p)>>]]
    /\ UNCHANGED <<phase, domain_insights, run_count, broadcast, final_ranked_feed,
                   reducerLog, broadcasterVars, clientVars>>

\* the sub-graph raises: invoked directly (the adapter with its try / except was
\* removed), nothing catches the error at the branch boundary and the run of the
\* combined graph ends with it
S_BranchRaises(b) ==
    /\ phase = "AwaitingBranches"
    /\ branch[b].st = "running"
    /\ branch' = [branch EXCEPT ![b] = [st |-> "raised", out |-> <<>>]]
    /\ phase' = "Aborted"
    /\ UNCHANGED <<domain_insights, run_count, broadcast, final_ranked_feed, reducerLog,
                   broadcasterVars, clientVars>>

\* Fan-In entered as soon as one agent has returned
S_FanIn_Any ==
    /\ phase = "AwaitingBranches"
    /\ \E b \in Branches : branch[b].st = "completed"
    /\ phase' = "FanningIn"
    /\ UNCHANGED <<branch, domain_insights, run_count, broadcast, final_ranked_feed,
                   reducerLog, broadcasterVars, clientVars>>

\* Fan-In: every agent has returned
S_FanIn ==
    /\ phase = "AwaitingBranches"
    /\ \A b \in Branches : branch[b].st = "completed"
    /\ phase' = "FanningIn"
    /\ UNCHANGED <<branch, domain_insights, run_count, broadcast, final_ranked_feed,
                   reducerLog, broadcasterVars, clientVars>>

\* Fan-In: one agent's domain_insights is merged by the reducer, one value of the
\* step after the other
S_Apply(b) ==
    /\ phase = "FanningIn"
    /\ branch[b].st = "completed"
    /\ domain_insights' = List(reduce_domain_insights(domain_insights, List(branch[b].out)))
    /\ branch' = [branch EXCEPT ![b].st = "applied"]
    /\ UNCHANGED <<phase, run_count, broadcast, final_ranked_feed, reducerLog, broadcasterVars, clientVars>>

\* Feed Aggregator (Rank & Dedupe): reads the merged field
S_Aggregate ==
    /\ phase = "FanningIn"
    /\ \A b \in Branches : branch[b].st = "applied"
    /\ phase' = "Aggregating"
    /\ final_ranked_feed' = aggregate(domain_insights.val)
    /\ UNCHANGED <<branch, domain_insights, run_count, broadcast, reducerLog, broadcasterVars, clientVars>>

\* The cycle counter of a Snapshot that repeats the previous one
NextRunCount_Same(n) == n

\* The cycle counter of the next broadcast Snapshot
NextRunCount(n) == n + 1

\* Broadcaster: a Snapshot is pushed to every currently connected client
Push(rc) ==
    [c \in DOMAIN delivered |->
        IF c \in connections THEN Append(delivered[c], rc) ELSE delivered[c]]

\* Data Refresher: the Snapshot of this cycle goes out
S_Broadcast ==
    /\ phase = "Aggregating"
    /\ phase' = "Broadcasting"
    /\ run_count' = NextRunCount(run_count)
    /\ broadcast' = [final_ranked_feed |-> final_ranked_feed,
                     run_count |-> run_count',
                     status |-> SnapshotStatus(branch)]
    /\ delivered' = Push(run_count')
    /\ UNCHANGED <<branch, domain_insights, final_ranked_feed, reducerLog, connections, missed,
                   clientVars>>

\* Router (Loop / End)
S_Route ==
    /\ phase = "Broadcasting"
    /\ \E stop \in BOOLEAN : phase' = IF stop THEN "Terminated" ELSE "LoopDelay"
    /\ UNCHANGED <<branch, domain_insights, run_count, broadcast, final_ranked_feed,
                   reducerLog, broadcasterVars, clientVars>>

CycleNext ==
    \/ S_Reset
    \/ S_FanOut
    \/ \E b \in Branches : S_BranchCompletes(b)
    \/ \E b \in Branches : S_BranchRaises(b)
    \/ S_FanIn
    \/ \E b \in Branches : S_Apply(b)
    \/ S_Aggregate
    \/ S_Broadcast
    \/ S_Route

SpecCycle == InitCycle /\ [][CycleNext]_vars

\* the graph's own steps are taken when they can be; a domain agent may never return
SchedulerNext ==
    \/ S_Reset
    \/ S_FanOut
    \/ S_FanIn
    \/ \E b \in Branches : S_Apply(b)
    \/ S_Aggregate
    \/ S_Broadcast
    \/ S_Route

SpecCycleSchedFair == SpecCycle /\ WF_vars(SchedulerNext)

\* every domain agent returns or raises as well
SpecCycleFair == SpecCycle /\ WF_vars(CycleNext)

(***************************************************************************)
(* The Broadcaster: the clients of the broadcast set, the heartbeat that   *)
(* drops the silent ones and the push of each cycle's Snapshot.  A client  *)
(* that reconnects is a new connection.                                    *)
(***************************************************************************)
Clients == {1, 2}

\* consecutive unacknowledged pings after which a client is dropped
MissedPingLimit == 3

\* the broadcast set after a drop that closes every connection
Drop_All(c) == {}

\* the broadcast set after client c is dropped
Drop(c) == connections \ {c}

InitBroadcaster ==
    /\ phase = "Idle"
    /\ branch = [b \in Branches |-> IdleBranch]
    /\ domain_insights = List(<<>>)
    /\ run_count = 0
    /\ broadcast = <<>>
    /\ final_ranked_feed = <<>>
    /\ reducerLog = <<>>
    /\ connections = Clients
    /\ missed = [c \in Clients |-> 0]
    /\ delivered = [c \in Clients |-> <<>>]
    /\ InitClientIdle

\* heartbeat: client c answers the ping with a pong within the window
H_Acked(c) ==
    /\ c \in connections
    /\ missed' = [missed EXCEPT ![c] = 0]
    /\ UNCHANGED <<phase, branch, domain_insights, run_count, broadcast, final_ranked_feed,
                   reducerLog, connections, delivered, clientVars>>

\* heartbeat: the window of client c's ping passes without a pong
H_Missed(c) ==
    /\ c \in connections
    /\ missed' = [missed EXCEPT ![c] = missed[c] + 1]
    /\ connections' = IF missed'[c] >= MissedPingLimit THEN Drop(c) ELSE connections
    /\ UNCHANGED <<phase, branch, domain_insights, run_count, broadcast, final_ranked_feed,
                   reducerLog, delivered, clientVars>>

HeartbeatNext ==
    \/ \E c \in Clients : H_Acked(c)
    \/ \E c \in Clients : H_Missed(c)

BroadcasterNext ==
    \/ CycleNext
    \/ HeartbeatNext

SpecBroadcaster == InitBroadcaster /\ [][BroadcasterNext]_vars

(***************************************************************************)
(* The reducer alone: one field, any initial value, updates one at a time. *)
(***************************************************************************)
SomeInsights == {Insight(b, 1, U(7)) : b \in 1..2}
Lists == {List(l) : l \in SeqsUpTo(SomeInsights, 1)} \cup
         {List(<<Insight(1, 1, U(7)), Insight(2, 1, U(7))>>)}
FieldValues == Lists \cup {None, Reset}
Updates == Lists \cup {Reset, Str("APPEND"), None}

InitReducer ==
    /\ phase = "Idle"
    /\ branch = [b \in Branches |-> IdleBranch]
    /\ domain_insights \in FieldValues
    /\ reducerLog = <<domain_insights>>
    /\ run_count = 0
    /\ broadcast = <<>>
    /\ final_ranked_feed = <<>>
    /\ InitBroadcasterIdle
    /\ InitClientIdle

\* the field's channel receives new: the reducer's result is the field's value
R_Update ==
    /\ Len(reducerLog) >= 1
    /\ Len(reducerLog) <= MaxUpdates
    /\ \E new \in Updates :
          /\ domain_insights' = List(reduce_domain_insights(domain_insights, new))
          /\ reducerLog' = Append(reducerLog, new)
    /\ UNCHANGED <<phase, branch, run_count, broadcast, final_ranked_feed, broadcasterVars, clientVars>>

SpecReducer == InitReducer /\ [][R_Update]_vars

(***************************************************************************)
(* The aggregator alone: fan-in is over and the merged field holds any     *)
(* list of insights.                                                       *)
(***************************************************************************)
Wrap(payloads) == [i \in DOMAIN payloads |-> Insight(i, 1, payloads[i])]

InitAggregator ==
    /\ phase = "FanningIn"
    /\ branch = [b \in Branches |-> [st |-> "applied", out |-> <<>>]]
    /\ \E payloads \in SeqsUpTo(Universe, MaxInsights) :
          domain_insights = List(Wrap(payloads))
    /\ run_count = 0
    /\ broadcast = <<>>
    /\ final_ranked_feed = <<>>
    /\ reducerLog = <<>>
    /\ InitBroadcasterIdle
    /\ InitClientIdle

SpecAggregator == InitAggregator /\ [][S_Aggregate]_vars

(***************************************************************************)
(* Properties.                                                             *)
(***************************************************************************)
FeedPart(f) == "final_ranked_feed" :> f

RECURSIVE LastNonEmptyFeed(_)
LastNonEmptyFeed(log) ==
    IF Len(log) = 0
    THEN <<>>
    ELSE LET last == log[Len(log)]
         IN  IF Has(last, "final_ranked_feed") /\ Len(last.final_ranked_feed) > 0
             THEN last.final_ranked_feed
             ELSE LastNonEmptyFeed(SubSeq(log, 1, Len(log) - 1))

\* C1: merging version, after every sequence of snapshot messages the held feed is
\* the feed of the most recent message whose feed was a non-empty list, or the
\* initial empty list if there was none.
C1_HeldFeedIsLastNonEmpty ==
    state.final_ranked_feed = LastNonEmptyFeed(wsLog)

\* the messages [e1], [], [e1, e2] were merged and the held feed is [e1, e2]
C1_Witness ==
    /\ wsLog = <<FeedPart(<<1>>), FeedPart(<<>>), FeedPart(<<1, 2>>)>>
    /\ state.final_ranked_feed = <<1, 2>>

\* C2: merging version, first_run_complete, once true, is true after every step
\* (message merge, poll response, initial fetch, loading timeout, connection event).
C2_FirstRunCompleteStable ==
    [][Truthy(state.first_run_complete) => Truthy(state'.first_run_complete)]_vars

\* the flag is true with no event held, after the timers fired and the fetches answered
C2_Witness ==
    /\ hook = "merge"
    /\ mounted
    /\ Truthy(state.first_run_complete)
    /\ Len(state.final_ranked_feed) = 0
    /\ readyState = "OPEN"
    /\ ~loadingTimeout
    /\ initialFetch = "done"
    /\ pollInFlight = 0

\* C3: merging version, a non-empty held feed implies first_run_complete = true.
C3_NonEmptyFeedImpliesComplete ==
    Len(state.final_ranked_feed) > 0 => Truthy(state.first_run_complete)

\* events are held before the loading timeout fired
C3_Witness ==
    /\ hook = "merge"
    /\ Len(state.final_ranked_feed) > 0
    /\ Truthy(state.first_run_complete)
    /\ loadingTimeout

\* C4: both versions, after each handler every ping received on the socket has
\* been answered by exactly one pong on it.
C4_PongPerPing ==
    pongsSent = pingsRecv

\* a ping was received and answered on an open socket
C4_Witness ==
    /\ hook = "backoff"
    /\ readyState = "OPEN"
    /\ pingsRecv >= 1
    /\ pongsSent = pingsRecv

\* min(1000 * 2^k, 30000) for k = 1, 2, ..
ExpectedDelay(k) ==
    CASE k = 1 -> 2000
      [] k = 2 -> 4000
      [] k = 3 -> 8000
      [] k = 4 -> 16000
      [] OTHER -> 30000

\* C5 as claimed: in a run of failures with no open in between every delay is
\* strictly greater than the one before, and none exceeds 30000.
C5_StrictlyIncreasing ==
    [][(reconnectAttempts' = reconnectAttempts + 1 /\ reconnectAttempts >= 1)
          => (delay' > delay /\ delay' <= 30000)]_vars

\* C5 amended: the delay after the k-th failure in a row is min(1000 * 2^k, 30000);
\* it is never below the one before, strictly above it while that one is below
\* 30000, and never above 30000; a successful open resets the count.
C5_NonDecreasingCapped ==
    [][/\ reconnectAttempts' = reconnectAttempts + 1 =>
            /\ delay' = ExpectedDelay(reconnectAttempts')
            /\ delay' <= 30000
            /\ reconnectAttempts >= 1 =>
                  (delay' >= delay /\ (delay < 30000 => delay' > delay))
       /\ (readyState = "CONNECTING" /\ readyState' = "OPEN") =>
            reconnectAttempts' = 0]_vars

\* the sixth failure in a row is scheduled with the fifth's delay
C5_Witness ==
    /\ hook = "backoff"
    /\ reconnectAttempts = 6
    /\ delay = 30000
    /\ reconnectTimeout

\* C6: backoff version, at most maxReconnectAttempts sockets are created in a row
\* without a successful open; with the count reached there is no socket and none
\* is created, and while the hook is mounted and disconnected the polling interval
\* is set.
C6_ReconnectBounded ==
    hook = "backoff" =>
        /\ socketsInRow <= maxReconnectAttempts
        /\ reconnectAttempts <= maxReconnectAttempts
        /\ reconnectAttempts >= maxReconnectAttempts =>
              /\ readyState \in {"NONE", "CLOSED"}
              /\ ~wsRef
              /\ mounted => ~isConnected
        /\ (mounted /\ ~isConnected) => pollInterval

\* ten sockets in a row failed, connect() gave up and polling is on
C6_Witness ==
    /\ hook = "backoff"
    /\ mounted
    /\ reconnectAttempts = maxReconnectAttempts
    /\ socketsInRow = maxReconnectAttempts
    /\ ~reconnectTimeout
    /\ state.status = "error"
    /\ pollInterval

\* C7: backoff version, no fallback poll response, with or without events or
\* failed, replaces a non-empty held feed by an empty one.
C7_PollKeepsFeed ==
    [][(pollInFlight' = pollInFlight - 1 /\ Len(state.final_ranked_feed) > 0)
          => Len(state'.final_ranked_feed) > 0]_vars

\* C8: backoff version, a snapshot message whose final_ranked_feed is present and
\* empty leaves a non-empty held feed unchanged.
C8_EmptyFeedKeepsHeld ==
    [][\A data \in B_WsData :
          (/\ B_Message(data)
           /\ Has(data, "final_ranked_feed")
           /\ Len(data.final_ranked_feed) = 0
           /\ Len(state.final_ranked_feed) > 0)
          => state'.final_ranked_feed = state.final_ranked_feed]_vars

\* C9: merging version, with the loading timer fair and the hook mounted,
\* first_run_complete eventually is true and the loading screen is gone.
C9_EventuallyFirstRun ==
    <>(~mounted \/ (Truthy(state.first_run_complete) /\ ~isLoading))

\* no socket ever existed, no fetch brought events, and the timeout forced the flag
C9_Witness ==
    /\ hook = "merge"
    /\ mounted
    /\ readyState = "NONE"
    /\ ~initialFetchDoneRef
    /\ Len(state.final_ranked_feed) = 0
    /\ ~loadingTimeout
    /\ Truthy(state.first_run_complete)
    /\ ~isLoading

InsightsOf(b, st) ==
    {i \in 1..Len(domain_insights.val) :
        domain_insights.val[i].source = b /\ domain_insights.val[i].status = st}

\* C10: a branch that raises never aborts the cycle; at aggregation and at the
\* broadcast it has exactly one insight, of status failed, and every other branch
\* has its insight merged.
C10_BranchErrorContained ==
    /\ phase # "Aborted"
    /\ phase \in {"Aggregating", "Broadcasting"} =>
          \A b \in Branches :
              IF branch[b].st = "raised"
              THEN Cardinality(InsightsOf(b, "failed")) = 1
              ELSE Cardinality(InsightsOf(b, "completed")) = 1

\* the field after the updates of log, as the reducer's contract gives it: empty
\* at the last RESET (or the initial value, a non-list taken as empty, when there
\* was none), then every list received since, appended in order
C11_LastReset(log) ==
    LET resets == {i \in 2..Len(log) : log[i] = Reset}
    IN  IF resets = {} THEN 0 ELSE CHOOSE i \in resets : \A j \in resets : j <= i

RECURSIVE C11_ListsFrom(_, _)
C11_ListsFrom(log, i) ==
    IF i > Len(log)
    THEN <<>>
    ELSE (IF log[i].kind = "list" THEN log[i].val ELSE <<>>) \o C11_ListsFrom(log, i + 1)

C11_Expected(log) ==
    LET r == C11_LastReset(log)
        base == IF r = 0 /\ log[1].kind = "list" THEN log[1].val ELSE <<>>
    IN  base \o C11_ListsFrom(log, IF r = 0 THEN 2 ELSE r + 1)

\* C11: the reducer returns the empty list on "RESET" whatever the field held,
\* and existing ++ incoming on a list, a non-list existing value counting as
\* empty; after a RESET the appends resume from the empty list.
C11_ReducerContract ==
    Len(reducerLog) > 1 => domain_insights = List(C11_Expected(reducerLog))

C11_Witness ==
    /\ Len(reducerLog) = 4
    /\ reducerLog[1] = None
    /\ reducerLog[2].kind = "list" /\ Len(reducerLog[2].val) > 0
    /\ reducerLog[3] = Reset
    /\ reducerLog[4].kind = "list" /\ Len(reducerLog[4].val) > 0
    /\ domain_insights = reducerLog[4]

Perms(n) == {f \in [1..n -> 1..n] : \A a, b \in 1..n : a # b => f[a] # f[b]}

IsPermutationOf(s, t) ==
    /\ Len(s) = Len(t)
    /\ \E f \in Perms(Len(s)) : \A i \in 1..Len(s) : s[i] = t[f[i]]

\* the branches' updates appended in the order perm
RECURSIVE C12_InOrder(_, _)
C12_InOrder(perm, i) ==
    IF i > NumBranches THEN <<>> ELSE branch[perm[i]].out \o C12_InOrder(perm, i + 1)

\* C12 as stated: at the end of fan-in the field's value is the same list for
\* every order in which the branches' updates are applied.
C12_SameListForEveryOrder ==
    phase = "Aggregating" =>
        \A perm \in Perms(NumBranches) : domain_insights.val = C12_InOrder(perm, 1)

\* C12 as amended: at the end of fan-in the field holds, for every order, the same
\* insights with the same multiplicities; the list is the updates appended in the
\* order they were applied.
C12_SameInsightsForEveryOrder ==
    phase = "Aggregating" =>
        /\ \A perm \in Perms(NumBranches) :
              IsPermutationOf(domain_insights.val, C12_InOrder(perm, 1))
        /\ \E perm \in Perms(NumBranches) : domain_insights.val = C12_InOrder(perm, 1)

C12_Witness ==
    /\ phase = "Aggregating"
    /\ domain_insights.val # C12_InOrder([b \in Branches |-> b], 1)
    /\ Len(domain_insights.val) = NumBranches

C14_CyclesIsolated ==
    /\ phase \in {"Resetting", "AwaitingBranches"} => domain_insights = List(<<>>)
    /\ phase \in {"FanningIn", "Aggregating"} =>
          \A i \in DOMAIN domain_insights.val :
              domain_insights.val[i].timestamp = run_count + 1

C14_Witness ==
    /\ phase = "Aggregating"
    /\ run_count = 1
    /\ Len(domain_insights.val) = NumBranches
    /\ \A i \in DOMAIN domain_insights.val : domain_insights.val[i].timestamp = 2

\* C15: the cycle is in FanningIn, Aggregating or Broadcasting only when every
\* branch started in it has produced its result; no branch is still running.
C15_FanInBarrier ==
    phase \in {"FanningIn", "Aggregating", "Broadcasting"} =>
        \A b \in Branches : branch[b].st \in {"completed", "applied"}

C15_Witness ==
    /\ phase = "Broadcasting"
    /\ broadcast.run_count = 1
    /\ \A b \in Branches : branch[b].st = "applied"

\* C16: every cycle that starts broadcasts a Snapshot, and the Snapshot's status
\* is error exactly when every branch of the cycle failed.
C16_EveryCycleBroadcasts ==
    /\ [](phase = "Resetting" => <>(phase = "Broadcasting"))
    /\ [](phase = "Broadcasting" =>
            (broadcast.status = "error" <=> \A b \in Branches : branch[b].st = "raised"))

\* C17: a cycle that awaits its branches does not block there forever, whether
\* or not every branch responds: it leaves AwaitingBranches on its way to
\* Broadcasting.
C17_AwaitingEnds ==
    [](phase = "AwaitingBranches" => <>(phase # "AwaitingBranches"))

Payload(i) == domain_insights.val[i].agent_output

C18_Position(severity) ==
    CHOOSE i \in 1..4 : <<"critical", "high", "medium", "low">>[i] = severity

C18_Below(a, b) ==
    \/ C18_Position(a.severity) > C18_Position(b.severity)
    \/ /\ a.severity = b.severity
       /\ \/ a.confidence < b.confidence
          \/ a.confidence = b.confidence /\ a.timestamp < b.timestamp

\* C18: in the Feed Aggregator's output no Event is ranked below the Event that
\* follows it: critical before high before medium before low, then the higher
\* confidence, then the later timestamp.
C18_Ranked ==
    phase = "Aggregating" =>
        \A i \in 1..(Len(final_ranked_feed) - 1) :
            ~C18_Below(final_ranked_feed[i], final_ranked_feed[i + 1])

C18_Witness ==
    /\ phase = "Aggregating"
    /\ Len(domain_insights.val) = 3
    /\ <<Payload(1).severity, Payload(2).severity, Payload(3).severity>> =
           <<"low", "critical", "high">>
    /\ Len(final_ranked_feed) = 3
    /\ [i \in 1..3 |-> final_ranked_feed[i].severity] = <<"critical", "high", "low">>

\* C19: every permutation of the insights the Feed Aggregator was given yields
\* the list of Events it returned.
C19_OrderIndependent ==
    phase = "Aggregating" =>
        \A perm \in Perms(Len(domain_insights.val)) :
            aggregate([i \in DOMAIN domain_insights.val |-> domain_insights.val[perm[i]]])
                = final_ranked_feed

C19_Witness ==
    /\ phase = "Aggregating"
    /\ Len(domain_insights.val) = 3
    /\ <<Payload(1), Payload(2), Payload(3)>> = <<U(3), U(4), U(1)>>
    /\ final_ranked_feed = <<U(1), U(4)>>

\* C20: of each group of near-duplicate insights exactly one Event is kept, and no
\* insight of the group has a higher confidence than it.
C20_OneEventPerGroup ==
    phase = "Aggregating" =>
        LET all == {Payload(i) : i \in DOMAIN domain_insights.val}
        IN  /\ \A i \in DOMAIN final_ranked_feed : final_ranked_feed[i] \in all
            /\ \A x \in all :
                  LET G == GroupOf(x, all)
                      kept == {i \in DOMAIN final_ranked_feed : final_ranked_feed[i] \in G}
                  IN  /\ Cardinality(kept) = 1
                      /\ \A i \in kept, y \in G :
                            final_ranked_feed[i].confidence >= y.confidence

C20_Witness ==
    /\ phase = "Aggregating"
    /\ Len(domain_insights.val) = 2
    /\ <<Payload(1), Payload(2)>> = <<U(2), U(1)>>
    /\ final_ranked_feed = <<U(1)>>

(***************************************************************************)
(* C21: a client is removed from the broadcast set exactly when it has     *)
(* left three consecutive pings unanswered, and a removal touches nobody   *)
(* else: every client still connected has received the Snapshot of every   *)
(* cycle broadcast so far, in order.                                       *)
(***************************************************************************)
C21_AllSnapshots == [i \in 1..run_count |-> i]

C21_DropOnlyTheSilent ==
    \A c \in DOMAIN missed :
        /\ c \in connections <=> missed[c] < MissedPingLimit
        /\ c \in connections => delivered[c] = C21_AllSnapshots

\* one client was dropped before the first Snapshot, the loop went on and the other
\* client has received the Snapshots of two cycles
C21_Witness ==
    \E c, d \in DOMAIN missed :
        /\ c \notin connections
        /\ delivered[c] = <<>>
        /\ d \in connections
        /\ Len(delivered[d]) >= 2

C23_RunCountNeverDecreases ==
    [][state'.run_count >= state.run_count]_vars

(***************************************************************************)
(* C24: in the merging version a view whose status is operational keeps it *)
(* through every update, except that a WebSocket message whose status is   *)
(* error makes it error; and a status that has left initializing never     *)
(* returns to it.                                                          *)
(***************************************************************************)
C24_ErrorMessage ==
    \E data \in WsData :
        /\ Has(data, "status")
        /\ data.status = "error"
        /\ M_Message(data)

C24_OperationalSticks ==
    [][ /\ state.status = "operational" =>
              \/ state'.status = "operational"
              \/ state'.status = "error" /\ C24_ErrorMessage
        /\ state.status # "initializing" => state'.status # "initializing" ]_vars

\* operational with an empty feed, after the loading timer and the initial fetch
C24_Witness ==
    /\ hook = "merge"
    /\ mounted
    /\ state.status = "operational"
    /\ state.final_ranked_feed = <<>>
    /\ ~loadingTimeout
    /\ initialFetch = "done"
    /\ pingsRecv > 0

(***************************************************************************)
(* C25: a fallback response that arrives while isConnected is true leaves  *)
(* the view as it is.                                                      *)
(***************************************************************************)
C25_NoPollWhileConnected ==
    [][(isConnected /\ pollInFlight' < pollInFlight) => state' = state]_vars

(***************************************************************************)
(* C26: a ping leaves the view as it is, in both versions.                 *)
(***************************************************************************)
C26_PingChangesNothing ==
    [][pingsRecv' > pingsRecv => state' = state]_vars

\* a ping was answered on a socket of a view that holds events and status error
C26_Witness ==
    /\ mounted
    /\ pingsRecv > 0
    /\ pongsSent > 0
    /\ state.final_ranked_feed # <<>>
    /\ state.status = "error"

(***************************************************************************)
(* C27: a message that is not JSON changes neither the view nor the        *)
(* connection (isConnected, the socket, the reconnect counter, the timers, *)
(* the requests in flight), and the socket stays open for the messages     *)
(* that follow.                                                            *)
(***************************************************************************)
C27_BadMessageChangesNothing ==
    [][ parseErrors' > parseErrors =>
            /\ UNCHANGED <<hook, state, isConnected, socketVars, mounted, mergeOnly,
                           pollVars, pingVars, backoffOnly>>
            /\ readyState' = "OPEN" ]_vars

\* a message failed to parse on a socket that is open, answers pings and merges feeds
C27_Witness ==
    /\ parseErrors > 0
    /\ readyState = "OPEN"
    /\ pingsRecv = 1
    /\ pongsSent = 1
    /\ state.final_ranked_feed # <<>>

(***************************************************************************)
(* C28: once a message with a non-empty feed has set initialFetchDoneRef,  *)
(* the initial fetch that was in flight leaves the held feed as it is.     *)
(***************************************************************************)
C28_FetchKeepsSnapshotFeed ==
    [][ (initialFetchDoneRef /\ initialFetch = "inflight" /\ initialFetch' = "done") =>
            state'.final_ranked_feed = state.final_ranked_feed ]_vars

(***************************************************************************)
(* C29: after the cleanup no reconnect timer is pending and no socket is   *)
(* connecting or open.                                                     *)
(***************************************************************************)
C29_NoReconnectAfterCleanup ==
    ~mounted =>
        /\ ~reconnectTimeout
        /\ readyState \notin {"CONNECTING", "OPEN"}

(***************************************************************************)
(* C30: in the backoff version the counter stays within 0..10, and once it *)
(* is 10 it stays 10, no socket is created or opened, and isConnected is   *)
(* false for as long as the hook is mounted.                               *)
(***************************************************************************)
C30_ExhaustionTerminal ==
    [][ /\ reconnectAttempts' \in 0..maxReconnectAttempts
        /\ reconnectAttempts = maxReconnectAttempts =>
              /\ reconnectAttempts' = maxReconnectAttempts
              /\ UNCHANGED <<readyState, wsRef, socketsInRow, isConnected>>
              /\ readyState \in {"NONE", "CLOSED"}
              /\ mounted => ~isConnected ]_vars

\* connect() gave up, and a later fallback response made the view operational
C30_Witness ==
    /\ hook = "backoff"
    /\ mounted
    /\ reconnectAttempts = maxReconnectAttempts
    /\ ~reconnectTimeout
    /\ ~isConnected
    /\ state.status = "operational"
    /\ pollInFlight = 0

====
